---------------------------- MODULE Spec2Model ----------------------------
(***************************************************************************)
(* A model of pasv-test-irqbalance.py: a sequential diagnostic script that *)
(* checks the irqbalance executable, scans it for marker strings, looks    *)
(* for a running irqbalance process and aggregates /proc/interrupts.       *)
(*                                                                         *)
(* The script is one thread of control; pc is its position.  The files it   *)
(* reads (the executable, the process list, /proc/interrupts) and the      *)
(* descriptors open at its start are the environment, fixed by the initial *)
(* state; the results of os.cpu_count, os.access, os.popen and of the      *)
(* version command are drawn when the call is made, independently of each  *)
(* other.  Text is kept as text: lines are strings, split into columns and *)
(* parsed into integers the way the Python built-ins do it.                *)
(***************************************************************************)
EXTENDS Integers, Sequences, FiniteSets, TLC

(***************************************************************************)
(* Bounds of the model.                                                    *)
(***************************************************************************)
\* body lines of /proc/interrupts after the header
MaxLines == 2
\* largest value os.cpu_count() returns
MaxCpus == 3
\* chunks an executable image is put together from
MaxChunks == 2
\* entries os.listdir("/proc/") returns
MaxProcs == 2

(***************************************************************************)
(* Module-level constants of the script.                                   *)
(***************************************************************************)
OK_ICON == "[ OK ] "
FAIL_ICON == "[FAIL] "
INFO_ICON == "[INFO] "
SKIP_ICON == "[SKIP] "

MARKERS ==
  << "libcap-ng.so.0", "libnuma.so.1", "/sys/devices/system/cpu",
     "%s/topology/core_siblings", "/proc/interrupts", "/proc/irq/%i/node",
     "g_main_loop_run", "g_list_append",
     "irqbalance" >>

\* Python's None where the script stores it in a variable that otherwise
\* holds a descriptor or a PID (both are >= 0)
None == -1

(***************************************************************************)
(* Python built-ins on text, as the script uses them.                      *)
(***************************************************************************)
Char(s, i) == SubSeq(s, i, i)

Whitespace == {" ", "\t", "\n", "\r"}

Digits == {"0", "1", "2", "3", "4", "5", "6", "7", "8", "9"}

RECURSIVE SplitFrom(_, _, _, _)
SplitFrom(s, i, cur, acc) ==
  IF i > Len(s)
    THEN IF cur = "" THEN acc ELSE Append(acc, cur)
    ELSE IF Char(s, i) \in Whitespace
           THEN SplitFrom(s, i + 1, "", IF cur = "" THEN acc ELSE Append(acc, cur))
           ELSE SplitFrom(s, i + 1, cur \o Char(s, i), acc)

\* str.split(): the maximal runs of non-whitespace characters, in order
Split(s) == SplitFrom(s, 1, "", << >>)

RECURSIVE LStrip(_, _)
LStrip(s, chars) ==
  IF s # "" /\ Char(s, 1) \in chars THEN LStrip(SubSeq(s, 2, Len(s)), chars) ELSE s

RECURSIVE RStrip(_, _)
RStrip(s, chars) ==
  IF s # "" /\ Char(s, Len(s)) \in chars
    THEN RStrip(SubSeq(s, 1, Len(s) - 1), chars)
    ELSE s

\* str.strip(chars): the characters of chars removed from both ends
Strip(s, chars) == RStrip(LStrip(s, chars), chars)

AllDigits(s) == s # "" /\ \A i \in 1..Len(s) : Char(s, i) \in Digits

\* re.match("^[0-9]+$", pid)
IsNumericName(s) == AllDigits(s)

DigitValue(c) ==
  CASE c = "0" -> 0 [] c = "1" -> 1 [] c = "2" -> 2 [] c = "3" -> 3
    [] c = "4" -> 4 [] c = "5" -> 5 [] c = "6" -> 6 [] c = "7" -> 7
    [] c = "8" -> 8 [] c = "9" -> 9

RECURSIVE DigitsValue(_)
DigitsValue(s) ==
  IF s = "" THEN 0
  ELSE 10 * DigitsValue(SubSeq(s, 1, Len(s) - 1)) + DigitValue(Char(s, Len(s)))

HasSign(s) == s # "" /\ Char(s, 1) \in {"+", "-"}

Unsigned(s) == IF HasSign(s) THEN SubSeq(s, 2, Len(s)) ELSE s

\* int(x) succeeds: an optional sign and decimal digits.  (int also takes
\* digit-separating underscores and non-ASCII digits; the inputs drawn
\* below have neither.)
IsIntLiteral(s) == AllDigits(Unsigned(s))

\* int(x) for a literal it accepts
ToInt(s) ==
  IF HasSign(s) /\ Char(s, 1) = "-"
    THEN 0 - DigitsValue(Unsigned(s))
    ELSE DigitsValue(Unsigned(s))

Min(S) == CHOOSE x \in S : \A y \in S : x <= y

\* bytes.find / str.find: the lowest 0-based index at which sub starts in s,
\* or -1 when it occurs nowhere
Find(s, sub) ==
  LET at == { i \in 0..(Len(s) - Len(sub)) : SubSeq(s, i + 1, i + Len(sub)) = sub }
  IN  IF at = {} THEN -1 ELSE Min(at)

\* bytes(marker, "utf-8"): every marker is ASCII, so each character is
\* encoded as the one byte of the same value; an image is modelled as the
\* string of its bytes
Utf8(marker) == marker

\* the slice seq[lo:hi] of Python (0-based, hi exclusive, clipped)
Slice(seq, lo, hi) ==
  LET h == IF hi > Len(seq) THEN Len(seq) ELSE hi
  IN  IF h <= lo THEN << >> ELSE SubSeq(seq, lo + 1, h)


(***************************************************************************)
(* State.                                                                  *)
(***************************************************************************)
VARIABLES
  pc,            \* position of the script
  out,           \* the lines printed so far
  exit_code,     \* exit status of the process, None while it runs
  error,         \* the uncaught exception that ended the run, "" if none
  open_fds,      \* descriptors open in the process
  exe,           \* environment: /usr/sbin/irqbalance, [readable, content]
  procs,         \* environment: os.listdir("/proc/") with each cmdline file
  interrupts,    \* environment: /proc/interrupts, [exists, lines]
  cpu_count,     \* line 104
  fd,            \* lines 114 and 134
  mem,           \* line 140: TRUE while the mapping is open
  marker_i,      \* line 142: index in MARKERS of the marker scanned next
  proc_i,        \* line 40: index of the directory entry examined next
  pid,           \* line 152
  f_open,        \* line 55: TRUE while /proc/interrupts is open
  f_pos,         \* line 55: number of the line f.readline() returns next
  irq_cpu_count, \* line 62: cpu_count of get_irq_statistics
  result,        \* line 54: the dictionary, as its items in insertion order
  irqs_per_cpu,  \* line 159
  irq_i          \* line 160: index of the item of irqs visited next

vars ==
  << pc, out, exit_code, error, open_fds, exe, procs, interrupts, cpu_count,
     fd, mem, marker_i, proc_i, pid, f_open, f_pos, irq_cpu_count, result,
     irqs_per_cpu, irq_i >>

\* One printed line: the icon, the format string and its argument.
Report(icon, text, arg) == [icon |-> icon, text |-> text, arg |-> arg]

\* the descriptor open() and pipe() hand out: the lowest one not in use
LowestFree(fds) == Min({ n \in 0..(Cardinality(fds)) : n \notin fds })

\* Python's truth value of a descriptor or PID variable: None and 0 are false
Truthy(v) == v # None /\ v # 0

(***************************************************************************)
(* get_irq_statistics and the two vector helpers.                          *)
(***************************************************************************)
\* f.readline(): line n of the file, "" at end of file
ReadLine(lines, n) == IF n <= Len(lines) THEN lines[n] ELSE ""

\* a loop that ends only at a line without any column
IsEndOfTable_empty(columns) == Len(columns) < 1

\* line 70
IsEndOfTable(columns) == Len(columns) <= 1

\* line 72
IrqName(columns) == Strip(columns[1], {":"})

\* a test that forgets MIS
IsSkipped_err(irq_name) == irq_name = "ERR"

\* line 77
IsSkipped(irq_name) == irq_name = "ERR" \/ irq_name = "MIS"

\* line 82: the columns int() is applied to
CountColumns(columns, count) == Slice(columns, 1, count)

\* result[irq_name] = irqs_per_cpu on a dictionary kept as its items in
\* insertion order: an existing key keeps its place and takes the new value
DictSet(d, key, val) ==
  IF \E i \in 1..Len(d) : d[i].name = key
    THEN [ i \in 1..Len(d) |->
             IF d[i].name = key THEN [name |-> key, counts |-> val] ELSE d[i] ]
    ELSE Append(d, [name |-> key, counts |-> val])

RECURSIVE count_nonzero_values(_)
count_nonzero_values(vec) ==
  IF vec = << >> THEN 0
  ELSE (IF Head(vec) # 0 THEN 1 ELSE 0) + count_nonzero_values(Tail(vec))

\* the 0-based index of the first nonzero value; None when there is none
RECURSIVE get_nonzero_index_from(_, _)
get_nonzero_index_from(vec, index) ==
  IF index >= Len(vec) THEN None
  ELSE IF vec[index + 1] # 0 THEN index
  ELSE get_nonzero_index_from(vec, index + 1)

get_nonzero_index(vec) == get_nonzero_index_from(vec, 0)

(***************************************************************************)
(* The environment the script is run in.                                   *)
(***************************************************************************)
RECURSIVE SeqsUpTo(_, _)
\* the sequences over S of length at most n
SeqsUpTo(S, n) ==
  IF n = 0 THEN { << >> }
  ELSE LET shorter == SeqsUpTo(S, n - 1)
       IN  shorter \cup { Append(q, x) : q \in shorter, x \in S }

RECURSIVE Concat(_)
Concat(chunks) == IF chunks = << >> THEN "" ELSE Head(chunks) \o Concat(Tail(chunks))

\* descriptor tables the script can start with: stdin open, or closed by
\* the caller (python3 pasv-test-irqbalance.py 0<&-)
StartFds == { {0, 1, 2}, {1, 2} }

\* pieces of an executable image: the markers, parts of markers, other bytes
Chunks ==
  { MARKERS[i] : i \in 1..Len(MARKERS) } \cup { "ELF", "libnuma.so", ".1", "irq", "balance" }

\* /usr/sbin/irqbalance: not openable, or openable with some content
\* (the empty file included)
ScanExes ==
  { [readable |-> FALSE, content |-> ""] } \cup
  { [readable |-> TRUE, content |-> Concat(q)] : q \in SeqsUpTo(Chunks, MaxChunks) }

MainExes ==
  { [readable |-> FALSE, content |-> ""],
    [readable |-> TRUE, content |-> ""],
    [readable |-> TRUE, content |-> "ELF libnuma.so.1 irqbalance"] }

\* entries of /proc: name, whether <name>/cmdline can be read, its text
ProcEntries ==
  { [name |-> "self", readable |-> TRUE, cmdline |-> ""],
    [name |-> "1", readable |-> TRUE, cmdline |-> "/sbin/init "],
    [name |-> "812", readable |-> TRUE, cmdline |-> "/usr/sbin/irqbalance --foreground"],
    [name |-> "977", readable |-> FALSE, cmdline |-> ""] }

ProcLists == SeqsUpTo(ProcEntries, MaxProcs)

\* header lines of /proc/interrupts
Headers == { "     CPU0  CPU1", "     CPU0  CPU1  CPU2" }

\* body lines of /proc/interrupts
BodyLines ==
  { "  5:  10  0  IO-APIC 5-edge",
    "  6:  0  7",
    "  7:  3  4  PCI-MSI eth0",
    "  8:  0  0  PCI-MSI eth1",
    "  9:  10  x",
    "  9:  x  0  IO-APIC",
    " 16:  100  0  0  IO-APIC",
    " 17:  0  0  50  IO-APIC",
    "ERR:  3",
    "MIS:  n/a  x",
    "ERR:",
    "" }

FilesOver(lineSet, n) ==
  { [exists |-> TRUE, lines |-> << h >> \o body] :
      h \in Headers, body \in SeqsUpTo(lineSet, n) }

\* /proc/interrupts: missing, or a header and up to MaxLines body lines
IrqFiles == { [exists |-> FALSE, lines |-> << >>] } \cup FilesOver(BodyLines, MaxLines)

MainFiles ==
  { [exists |-> FALSE, lines |-> << >>] } \cup
  FilesOver({ "  6:  0  7", "  9:  x  0  IO-APIC", "ERR:  3" }, 1)

(***************************************************************************)
(* Initial states.                                                         *)
(***************************************************************************)
\* everything the script has not assigned yet
Unassigned ==
  /\ exit_code = None
  /\ error = ""
  /\ fd = None
  /\ mem = FALSE
  /\ marker_i = 1
  /\ proc_i = 1
  /\ pid = None
  /\ f_open = FALSE
  /\ f_pos = 1
  /\ irq_cpu_count = 0
  /\ result = << >>
  /\ irqs_per_cpu = << >>
  /\ irq_i = 1

\* the start of the script
Init ==
  /\ pc = "cpu_count"
  /\ out = << >>
  /\ cpu_count = 0
  /\ open_fds \in StartFds
  /\ exe \in MainExes
  /\ procs \in ProcLists
  /\ interrupts \in MainFiles
  /\ Unassigned

\* what lines 104-131 print when every check passes
ChecksPassed(n) ==
  << Report(INFO_ICON, "processor count: %d", n),
     Report(OK_ICON, "/usr/sbin/irqbalance exists and is executable", ""),
     Report(OK_ICON, "/usr/sbin/irqbalance --version returns '%s'", "irqbalance version 1.9.2"),
     Report(OK_ICON, "/usr/lib/systemd/system/irqbalance.service exists and is readable", "") >>

\* line 133, after a run of lines 104-131 in which every check passed
InitScan ==
  /\ pc = "open"
  /\ cpu_count = 1
  /\ out = ChecksPassed(cpu_count)
  /\ open_fds \in StartFds
  /\ exe \in ScanExes
  /\ procs = << >>
  /\ interrupts \in { f \in MainFiles : ~f.exists }
  /\ Unassigned

\* line 158, after a run of lines 104-156 in which every check passed, the
\* executable could not be opened and no irqbalance process was found
InitIrq ==
  /\ pc = "irqs"
  /\ cpu_count \in 1..MaxCpus
  /\ out = ChecksPassed(cpu_count) \o
           << Report(FAIL_ICON, "/usr/sbin/irqbalance: could not open for reading", ""),
              Report(SKIP_ICON, "no irqbalance executable, cannot test markers", ""),
              Report(INFO_ICON, "irqbalance seems not to be running", "") >>
  /\ open_fds = {0, 1, 2}
  /\ exe = [readable |-> FALSE, content |-> ""]
  /\ procs = << >>
  /\ interrupts \in IrqFiles
  /\ Unassigned

(***************************************************************************)
(* The script, statement by statement.                                     *)
(***************************************************************************)
Emit(line) == out' = Append(out, line)

\* an exception nothing catches: the interpreter prints the traceback and
\* the process ends with status 1
Raise(exception) ==
  /\ pc' = "exit"
  /\ error' = exception
  /\ exit_code' = 1

\* lines 104-105
ProcessorCount ==
  /\ pc = "cpu_count"
  /\ \E n \in 1..MaxCpus :
       /\ cpu_count' = n
       /\ Emit(Report(INFO_ICON, "processor count: %d", n))
  /\ pc' = "access"
  /\ UNCHANGED << exit_code, error, open_fds, exe, procs, interrupts, fd, mem,
                  marker_i, proc_i, pid, f_open, f_pos, irq_cpu_count, result,
                  irqs_per_cpu, irq_i >>

\* lines 107-111; a file that cannot be opened may still pass os.X_OK
CheckExecutable ==
  /\ pc = "access"
  /\ \E executable \in BOOLEAN :
       Emit(IF executable
               THEN Report(OK_ICON, "/usr/sbin/irqbalance exists and is executable", "")
               ELSE Report(FAIL_ICON, "/usr/sbin/irqbalance does not exist, or is not accessible", ""))
  /\ pc' = "popen"
  /\ UNCHANGED << exit_code, error, open_fds, exe, procs, interrupts, cpu_count,
                  fd, mem, marker_i, proc_i, pid, f_open, f_pos, irq_cpu_count,
                  result, irqs_per_cpu, irq_i >>

\* lines 113-117
StartVersion ==
  /\ pc = "popen"
  /\ \E started \in BOOLEAN :
       IF started
         THEN /\ fd' = LowestFree(open_fds)
              /\ open_fds' = open_fds \cup { LowestFree(open_fds) }
              /\ pc' = "version"
              /\ UNCHANGED << out, exit_code >>
         ELSE /\ Emit(Report(FAIL_ICON, "/usr/sbin/irqbalance --version did not execute correctly", ""))
              /\ pc' = "exit"
              /\ exit_code' = 1
              /\ UNCHANGED << fd, open_fds >>
  /\ UNCHANGED << error, exe, procs, interrupts, cpu_count, mem, marker_i,
                  proc_i, pid, f_open, f_pos, irq_cpu_count, result,
                  irqs_per_cpu, irq_i >>

\* lines 119-126; fd.close() returns None when the command exited with 0
ReadVersion ==
  /\ pc = "version"
  /\ \E status \in {0, 1, 127} :
       Emit(IF status = 0
               THEN Report(OK_ICON, "/usr/sbin/irqbalance --version returns '%s'", "irqbalance version 1.9.2")
               ELSE Report(FAIL_ICON, "/usr/sbin/irqbalance --version failed with exit code %d", status))
  /\ open_fds' = open_fds \ { fd }
  /\ pc' = "service"
  /\ UNCHANGED << exit_code, error, exe, procs, interrupts, cpu_count, fd, mem,
                  marker_i, proc_i, pid, f_open, f_pos, irq_cpu_count, result,
                  irqs_per_cpu, irq_i >>

\* lines 128-131
CheckService ==
  /\ pc = "service"
  /\ \E readable \in BOOLEAN :
       Emit(IF readable
               THEN Report(OK_ICON, "/usr/lib/systemd/system/irqbalance.service exists and is readable", "")
               ELSE Report(FAIL_ICON, "/usr/lib/systemd/system/irqbalance.service does not exist or is not readable", ""))
  /\ pc' = "open"
  /\ UNCHANGED << exit_code, error, open_fds, exe, procs, interrupts, cpu_count,
                  fd, mem, marker_i, proc_i, pid, f_open, f_pos, irq_cpu_count,
                  result, irqs_per_cpu, irq_i >>

\* lines 133-137
OpenExecutable ==
  /\ pc = "open"
  /\ IF exe.readable
       THEN /\ fd' = LowestFree(open_fds)
            /\ open_fds' = open_fds \cup { LowestFree(open_fds) }
            /\ UNCHANGED out
       ELSE /\ Emit(Report(FAIL_ICON, "/usr/sbin/irqbalance: could not open for reading", ""))
            /\ fd' = None
            /\ UNCHANGED open_fds
  /\ pc' = "if_fd"
  /\ UNCHANGED << exit_code, error, exe, procs, interrupts, cpu_count, mem,
                  marker_i, proc_i, pid, f_open, f_pos, irq_cpu_count, result,
                  irqs_per_cpu, irq_i >>

\* lines 139-140 and 149-150; mmap.mmap(fd, 0, ...) raises ValueError on an
\* empty file
MapOrSkip ==
  /\ pc = "if_fd"
  /\ IF Truthy(fd)
       THEN IF exe.content = ""
              THEN /\ Raise("ValueError: cannot mmap an empty file")
                   /\ UNCHANGED << out, mem >>
              ELSE /\ mem' = TRUE
                   /\ pc' = "scan"
                   /\ UNCHANGED << out, error, exit_code >>
       ELSE /\ Emit(Report(SKIP_ICON, "no irqbalance executable, cannot test markers", ""))
            /\ pc' = "lookup"
            /\ UNCHANGED << mem, error, exit_code >>
  /\ marker_i' = 1
  /\ UNCHANGED << open_fds, exe, procs, interrupts, cpu_count, fd, proc_i, pid,
                  f_open, f_pos, irq_cpu_count, result, irqs_per_cpu, irq_i >>

\* lines 142-147, one marker
ScanMarker ==
  /\ pc = "scan"
  /\ marker_i <= Len(MARKERS)
  /\ Emit(IF Find(exe.content, Utf8(MARKERS[marker_i])) = -1
             THEN Report(FAIL_ICON, "marker '%s' not found in the irqbalance executable", MARKERS[marker_i])
             ELSE Report(OK_ICON, "marker '%s' found in the irqbalance executable", MARKERS[marker_i]))
  /\ marker_i' = marker_i + 1
  /\ UNCHANGED << pc, exit_code, error, open_fds, exe, procs, interrupts,
                  cpu_count, fd, mem, proc_i, pid, f_open, f_pos, irq_cpu_count,
                  result, irqs_per_cpu, irq_i >>

\* the end of the with block of line 141, and line 148
CloseExecutable ==
  /\ pc = "scan"
  /\ marker_i > Len(MARKERS)
  /\ mem' = FALSE
  /\ open_fds' = open_fds \ { fd }
  /\ pc' = "lookup"
  /\ UNCHANGED << out, exit_code, error, exe, procs, interrupts, cpu_count, fd,
                  marker_i, proc_i, pid, f_open, f_pos, irq_cpu_count, result,
                  irqs_per_cpu, irq_i >>

\* lines 27-34: the except clause names e, which is not defined, so an
\* error of io.open or readline ends in NameError
read_one_line_raises(entry) == ~entry.readable

\* lines 30-32, when the file can be read
read_one_line(entry) == Strip(entry.cmdline, Whitespace)

\* lines 40-45, one directory entry
find_running_process_id ==
  /\ pc = "lookup"
  /\ IF proc_i > Len(procs)
       THEN /\ pid' = None
            /\ pc' = "report_pid"
            /\ UNCHANGED << proc_i, error, exit_code >>
       ELSE LET entry == procs[proc_i] IN
            IF ~IsNumericName(entry.name)
              THEN /\ proc_i' = proc_i + 1
                   /\ UNCHANGED << pc, pid, error, exit_code >>
            ELSE IF read_one_line_raises(entry)
              THEN /\ Raise("NameError: name 'e' is not defined")
                   /\ UNCHANGED << proc_i, pid >>
            ELSE IF Find(read_one_line(entry), "irqbalance") # -1
              THEN /\ pid' = ToInt(entry.name)
                   /\ pc' = "report_pid"
                   /\ UNCHANGED << proc_i, error, exit_code >>
              ELSE /\ proc_i' = proc_i + 1
                   /\ UNCHANGED << pc, pid, error, exit_code >>
  /\ UNCHANGED << out, open_fds, exe, procs, interrupts, cpu_count, fd, mem,
                  marker_i, f_open, f_pos, irq_cpu_count, result, irqs_per_cpu,
                  irq_i >>

\* lines 153-156
ReportProcess ==
  /\ pc = "report_pid"
  /\ Emit(IF ~Truthy(pid)
             THEN Report(INFO_ICON, "irqbalance seems not to be running", "")
             ELSE Report(OK_ICON, "irqbalance currently running (PID %d)", pid))
  /\ pc' = "irqs"
  /\ UNCHANGED << exit_code, error, open_fds, exe, procs, interrupts, cpu_count,
                  fd, mem, marker_i, proc_i, pid, f_open, f_pos, irq_cpu_count,
                  result, irqs_per_cpu, irq_i >>

\* line 158 calls get_irq_statistics: lines 54-62
ReadHeader ==
  /\ pc = "irqs"
  /\ IF ~interrupts.exists
       THEN /\ Raise("FileNotFoundError: /proc/interrupts")
            /\ UNCHANGED << f_open, f_pos, irq_cpu_count, result >>
       ELSE /\ result' = << >>
            /\ f_open' = TRUE
            /\ irq_cpu_count' = Len(Split(ReadLine(interrupts.lines, 1)))
            /\ f_pos' = 2
            /\ pc' = "parse"
            /\ UNCHANGED << error, exit_code >>
  /\ UNCHANGED << out, open_fds, exe, procs, interrupts, cpu_count, fd, mem,
                  marker_i, proc_i, pid, irqs_per_cpu, irq_i >>

\* lines 68-84, one turn of the loop; on break the function returns and
\* line 159 runs
ParseLine ==
  /\ pc = "parse"
  /\ LET columns == Split(ReadLine(interrupts.lines, f_pos)) IN
     IF IsEndOfTable(columns)
       THEN /\ f_open' = FALSE
            /\ f_pos' = f_pos + 1
            /\ irqs_per_cpu' = [ i \in 1..cpu_count |-> 0 ]
            /\ irq_i' = 1
            /\ pc' = "aggregate"
            /\ UNCHANGED << result, error, exit_code >>
     ELSE IF IsSkipped(IrqName(columns))
       THEN /\ f_pos' = f_pos + 1
            /\ UNCHANGED << pc, f_open, result, irqs_per_cpu, irq_i, error, exit_code >>
     ELSE LET fields == CountColumns(columns, irq_cpu_count) IN
          IF \E k \in 1..Len(fields) : ~IsIntLiteral(fields[k])
            THEN /\ Raise("ValueError: invalid literal for int()")
                 /\ f_open' = FALSE
                 /\ f_pos' = f_pos + 1
                 /\ UNCHANGED << result, irqs_per_cpu, irq_i >>
            ELSE /\ result' = DictSet(result, IrqName(columns),
                                      [ k \in 1..Len(fields) |-> ToInt(fields[k]) ])
                 /\ f_pos' = f_pos + 1
                 /\ UNCHANGED << pc, f_open, irqs_per_cpu, irq_i, error, exit_code >>
  /\ UNCHANGED << out, open_fds, exe, procs, interrupts, cpu_count, fd, mem,
                  marker_i, proc_i, pid, irq_cpu_count >>

\* lines 160-163, one item of irqs; after the last one the script ends
Aggregate ==
  /\ pc = "aggregate"
  /\ IF irq_i > Len(result)
       THEN /\ pc' = "exit"
            /\ exit_code' = 0
            /\ UNCHANGED << irqs_per_cpu, irq_i, error >>
       ELSE LET vec == result[irq_i].counts IN
            IF count_nonzero_values(vec) # 1
              THEN /\ irq_i' = irq_i + 1
                   /\ UNCHANGED << pc, irqs_per_cpu, error, exit_code >>
            ELSE LET cpu_index == get_nonzero_index(vec) IN
                 IF cpu_index >= Len(irqs_per_cpu)
                   THEN /\ Raise("IndexError: list index out of range")
                        /\ UNCHANGED << irqs_per_cpu, irq_i >>
                   ELSE /\ irqs_per_cpu' =
                             [ irqs_per_cpu EXCEPT
                                 ![cpu_index + 1] = @ + vec[cpu_index + 1] ]
                        /\ irq_i' = irq_i + 1
                        /\ UNCHANGED << pc, error, exit_code >>
  /\ UNCHANGED << out, open_fds, exe, procs, interrupts, cpu_count, fd, mem,
                  marker_i, proc_i, pid, f_open, f_pos, irq_cpu_count, result >>

(***************************************************************************)
(* Specifications.                                                         *)
(***************************************************************************)
\* the marker scan, lines 133-150
NextScan == OpenExecutable \/ MapOrSkip \/ ScanMarker \/ CloseExecutable

\* the interrupt statistics, lines 158-163
NextIrq == ReadHeader \/ ParseLine \/ Aggregate

Next ==
  \/ ProcessorCount
  \/ CheckExecutable
  \/ StartVersion
  \/ ReadVersion
  \/ CheckService
  \/ NextScan
  \/ find_running_process_id
  \/ ReportProcess
  \/ NextIrq

\* a whole run of the script
Spec == Init /\ [][Next]_vars

\* the marker scan over every image of ScanExes
SpecScan == InitScan /\ [][NextScan]_vars

\* get_irq_statistics and the aggregation over every file of IrqFiles
SpecIrq == InitIrq /\ [][NextIrq]_vars

(***************************************************************************)
(* What the properties below say about a file, stated on its text and not  *)
(* through the parser's own tests.                                         *)
(***************************************************************************)
\* the number of whitespace-separated tokens of a line: the positions at
\* which a token starts
TokenCount(s) ==
  Cardinality({ i \in 1..Len(s) :
                  /\ Char(s, i) \notin Whitespace
                  /\ (i = 1 \/ Char(s, i - 1) \in Whitespace) })

Sentinels == { "ERR", "MIS" }

FileLines == interrupts.lines

\* the number of labels of the header line
HeaderCpus == TokenCount(ReadLine(FileLines, 1))

\* the first line after the header with 0 or 1 tokens; end of input counts
TableEnd ==
  Min({ n \in 2..(Len(FileLines) + 1) : TokenCount(ReadLine(FileLines, n)) <= 1 })

Row(n) == Split(ReadLine(FileLines, n))

RowName(n) == Strip(Row(n)[1], {":"})

\* the interrupt lines of the table: before its end, not ERR or MIS
DataRows == { n \in 2..(TableEnd - 1) : RowName(n) \notin Sentinels }

\* the per-CPU count columns of a line: one per header CPU, as far as the
\* line has them
CountFieldsOf(n) ==
  { k \in 2..(HeaderCpus + 1) : k <= Len(Row(n)) }

\* a line with a count for every CPU of the header, each an integer numeral
WellFormedRow(n) ==
  /\ Len(Row(n)) >= HeaderCpus + 1
  /\ \A k \in CountFieldsOf(n) : IsIntLiteral(Row(n)[k])

\* the full per-CPU count sequence of a well-formed line
FullCounts(n) == [ c \in 1..HeaderCpus |-> ToInt(Row(n)[c + 1]) ]

\* exactly one nonzero count, and it is CPU c's
ExclusiveAt(n, c) ==
  /\ FullCounts(n)[c] # 0
  /\ \A d \in 1..HeaderCpus : d # c => FullCounts(n)[d] = 0

Exclusive(n) == \E c \in 1..HeaderCpus : ExclusiveAt(n, c)

\* a table as the kernel writes it: every interrupt line complete, no name
\* twice, as many header labels as the operating system counts processors
WellFormedTable ==
  /\ interrupts.exists
  /\ HeaderCpus >= 1
  /\ HeaderCpus = cpu_count
  /\ \A n \in DataRows : WellFormedRow(n)
  /\ \A n, m \in DataRows : RowName(n) = RowName(m) => n = m

RECURSIVE SumAt(_, _)
SumAt(rows, c) ==
  IF rows = {} THEN 0
  ELSE LET n == CHOOSE r \in rows : TRUE
       IN  FullCounts(n)[c] + SumAt(rows \ {n}, c)

\* CPU by CPU, the sum of the counts of the lines exclusive to that CPU
ExpectedLoad ==
  [ c \in 1..HeaderCpus |-> SumAt({ n \in DataRows : ExclusiveAt(n, c) }, c) ]

Keys(d) == { d[i].name : i \in 1..Len(d) }

\* the line a dictionary entry was last written from
RowOf(name) ==
  LET rows == { n \in DataRows : RowName(n) = name }
  IN  CHOOSE n \in rows : \A m \in rows : m <= n

IntError == "ValueError: invalid literal for int()"

\* get_irq_statistics has been called and has not returned or raised yet
Parsing == pc = "parse"

\* get_irq_statistics has returned its dictionary
ParseReturned == pc = "aggregate" \/ (pc = "exit" /\ irqs_per_cpu # << >>)

(***************************************************************************)
(* Properties of get_irq_statistics and the aggregation.                   *)
(***************************************************************************)
\* the lines get_irq_statistics has stored so far are all complete
StoredRowsComplete ==
  \A n \in DataRows : n < f_pos => Len(Row(n)) >= HeaderCpus + 1

\* C1: every count sequence stored in the interrupt table has length
\* cpu_count, the number of labels of the header line (stated for lines
\* that carry a count for every CPU).
C1_StoredLengthIsCpuCount ==
  (interrupts.exists /\ (Parsing \/ ParseReturned) /\ StoredRowsComplete)
    => \A i \in 1..Len(result) : Len(result[i].counts) = HeaderCpus

\* C2: for a well-formed table, after parsing and aggregation the load of
\* CPU i is the sum of the counts of the lines whose full count sequence
\* has exactly one nonzero entry, at index i.
C2_LoadIsExclusiveSum ==
  (pc = "exit" /\ exit_code = 0 /\ WellFormedTable) => irqs_per_cpu = ExpectedLoad

\* C3: a line whose per-CPU counts have two or more nonzero entries, or
\* none, leaves every slot of the load unchanged when it is aggregated.
C3_SharedOrIdleLineAddsNothing ==
  [][ ( /\ pc = "aggregate"
        /\ cpu_count = HeaderCpus
        /\ irq_i <= Len(result)
        /\ WellFormedRow(RowOf(result[irq_i].name))
        /\ ~Exclusive(RowOf(result[irq_i].name)) )
      => irqs_per_cpu' = irqs_per_cpu ]_vars

\* C7: when a per-CPU count column of an interrupt line before the end of
\* the table is not an integer numeral, get_irq_statistics does not return
\* a table.
C7_BadCountIsNeverDropped ==
  ParseReturned
    => \A n \in DataRows : \A k \in CountFieldsOf(n) : IsIntLiteral(Row(n)[k])

\* what C8 says of one state: the parser never reads past the first line
\* with 0 or 1 tokens, that line raises nothing, and the table holds the
\* names of the interrupt lines before it and no others
StopsAtTableEnd ==
  /\ Parsing =>
       /\ f_pos <= TableEnd
       /\ Keys(result) = { RowName(n) : n \in { m \in DataRows : m < f_pos } }
  /\ ParseReturned =>
       /\ f_pos = TableEnd + 1
       /\ Keys(result) = { RowName(n) : n \in DataRows }
  /\ error = IntError => f_pos - 1 \in DataRows

\* what C8 says of one step: every turn of the loop reads exactly one more
\* line, so the loop runs at most once per line up to the end of the table
ReadsOneLine == Parsing => (f_pos' = f_pos + 1 /\ f_pos' <= TableEnd + 1)

\* C8: parsing terminates (each turn of the loop moves one line forward and
\* none moves past the first line with 0 or 1 tokens, end of input
\* included); it stops without error at that line; no line at or after it
\* is in the table, every interrupt line before it is.
C8_ParsingStopsAtFirstShortLine ==
  [](interrupts.exists => StopsAtTableEnd) /\ [][ReadsOneLine]_vars

\* C8 happens: the parser has returned at a line of one token inside the
\* file, and an interrupt line after that line is not in the table.
C8_Witness ==
  /\ ParseReturned
  /\ TableEnd <= Len(FileLines)
  /\ TokenCount(FileLines[TableEnd]) = 1
  /\ \E n \in (TableEnd + 1)..Len(FileLines) :
       /\ TokenCount(FileLines[n]) > 1
       /\ RowName(n) \notin Sentinels
       /\ RowName(n) \notin Keys(result)

\* what C9 says of one state: ERR and MIS are not keys of the table
NoSentinelKey == \A i \in 1..Len(result) : result[i].name \notin Sentinels

\* what C9 says of one step: an ERR or MIS line with more columns than its
\* name is passed over, whatever the columns hold, and parsing goes on with
\* the next line; and no step of the aggregation adds an ERR or MIS entry
\* to the load
SentinelStep ==
  /\ ( /\ Parsing
       /\ TokenCount(ReadLine(FileLines, f_pos)) > 1
       /\ RowName(f_pos) \in Sentinels )
     => (pc' = "parse" /\ f_pos' = f_pos + 1 /\ result' = result /\ error' = "")
  /\ (pc = "aggregate" /\ irqs_per_cpu' # irqs_per_cpu)
     => result[irq_i].name \notin Sentinels

\* C9: a line named ERR or MIS is never a key of the interrupt table and
\* never adds to the load, whatever its other columns hold, and skipping it
\* does not stop the parsing of the lines after it.
C9_SentinelLinesAreSkipped == []NoSentinelKey /\ [][SentinelStep]_vars

\* C9 happens: an ERR or MIS line with non-numeric columns was read, an
\* interrupt line after it is in the table and has added to the load.
C9_Witness ==
  /\ pc = "exit"
  /\ exit_code = 0
  /\ \E n \in 2..(TableEnd - 1) :
       /\ RowName(n) \in Sentinels
       /\ \E k \in 2..Len(Row(n)) : ~IsIntLiteral(Row(n)[k])
       /\ \E m \in DataRows : m > n /\ RowName(m) \in Keys(result)
  /\ \E c \in 1..Len(irqs_per_cpu) : irqs_per_cpu[c] # 0

(***************************************************************************)
(* Properties of the marker scan.                                          *)
(***************************************************************************)
IsMarkerLine(line) ==
  line.text \in { "marker '%s' found in the irqbalance executable",
                  "marker '%s' not found in the irqbalance executable" }

IsSkipLine(line) == line.icon = SKIP_ICON

MarkerLines == SelectSeq(out, IsMarkerLine)

\* the scan's results in the order printed: the marker and whether found
ScanResults ==
  [ k \in 1..Len(MarkerLines) |->
      [marker |-> MarkerLines[k].arg, found |-> MarkerLines[k].icon = OK_ICON] ]

\* m occurs in content as a contiguous substring
Occurs(m, content) ==
  \E i \in 1..Len(content) : \E j \in i..Len(content) : SubSeq(content, i, j) = m

\* one result per marker, in the order of MARKERS, found iff it occurs
ExpectedResults ==
  [ k \in 1..Len(MARKERS) |->
      [marker |-> MARKERS[k], found |-> Occurs(MARKERS[k], exe.content)] ]

\* the marker-scan step is over: the process lookup is next, or the run ended
ScanStepOver == pc \in {"lookup", "exit"}

\* the executable was opened for reading
Opened == fd # None

\* C4: for every content of an executable that was opened for reading the
\* scan reports one result per marker, in the order of MARKERS, and reports
\* a marker found iff it occurs in the content.  (Stated for a descriptor
\* other than 0; C5 covers descriptor 0.)
C4_ScanReportsEveryMarker ==
  (ScanStepOver /\ Opened /\ fd # 0) => ScanResults = ExpectedResults

\* C5: when the executable cannot be opened the scan step prints a single
\* SKIP line and no marker line; whenever it was opened the step prints
\* marker lines and no SKIP line.
C5_SkipIffNotOpened ==
  pc = "lookup" =>
    IF Opened
      THEN Len(SelectSeq(out, IsSkipLine)) = 0 /\ Len(MarkerLines) > 0
      ELSE Len(SelectSeq(out, IsSkipLine)) = 1 /\ Len(MarkerLines) = 0

\* C10: on every path through the scan step the mapping and the descriptor
\* of the executable are released before the process lookup begins or the
\* run ends.
C10_ReleasedBeforeLookup ==
  ScanStepOver => (~mem /\ (Opened => fd \notin open_fds))

\* Where the image is mapped, the scan agrees with C4: on a non-empty image
\* opened on a descriptor other than 0, each result printed is the next
\* marker's and says found iff the marker occurs, and all are printed by
\* the time the lookup begins.
ScanMatchesOccurrence ==
  (Opened /\ Truthy(fd) /\ exe.content # "") =>
    /\ Len(ScanResults) <= Len(MARKERS)
    /\ \A k \in 1..Len(ScanResults) : ScanResults[k] = ExpectedResults[k]
    /\ pc = "lookup" => Len(ScanResults) = Len(MARKERS)

(***************************************************************************)
(* Properties of the whole run.                                            *)
(***************************************************************************)
\* C6: the run is aborted only by the version command failing to start
\* (status 1) or by a malformed number in the interrupt table; every other
\* failing check becomes a report line and the run ends with status 0.
\* (The ValueError of mapping an empty executable is no check of the
\* claim's list and is left aside here.)
C6_OnlyTwoAborts ==
  (pc = "exit" /\ error # "ValueError: cannot mmap an empty file") =>
    \/ exit_code = 0 /\ error = ""
    \/ exit_code = 1 /\ error = "" /\ Len(out) = 3
    \/ error = IntError

=============================================================================
